---- MODULE Spec2Model ----
(***************************************************************************)
(* A model of inline-python's execution Context (src/context.rs):          *)
(* construction from the __main__ module's dictionary, typed get/set       *)
(* through the pyo3 conversions, run of a PythonBlock (inject the captured *)
(* variables, then execute the code), and the GIL discipline of the        *)
(* self-acquiring and the *_with_gil forms.                                *)
(***************************************************************************)
EXTENDS Integers, Sequences, FiniteSets, TLC

\* ------------------------------------------------------------------ bounds

\* Number of host threads that call into the Context API.
NumThreads == 2
\* Deepest nesting of GILGuards one thread holds (the GIL is re-entrant).
MaxDepth == 2

Threads == 1..NumThreads

\* Host variables that can hold a Context (let a = Context::new(); let b = ...).
Contexts == {"A", "B"}

\* Names of global variables the host and the scripted code use.
UserNames == {"x", "foo"}
\* The names the host sets.
SetNames == {"x"}
Names == UserNames \cup {"__name__"}

\* ------------------------------------------------------- interpreter values

PyInt(n) == [t |-> "int", n |-> n, s |-> ""]
PyStr(s) == [t |-> "str", n |-> 0, s |-> s]
\* A key the dictionary does not hold.
Absent == [t |-> "absent", n |-> 0, s |-> ""]

\* Host (Rust) values and the host types T of get::<T>.
I32(n) == [ty |-> "i32", n |-> n, s |-> ""]
RString(s) == [ty |-> "String", n |-> 0, s |-> s]
NoVal == [ty |-> "none", n |-> 0, s |-> ""]
HostTypes == {"i32", "String"}
HostValues == {I32(13), RString("a")}

\* std::any::type_name::<T>()
type_name(T) == IF T = "i32" THEN "i32" ELSE "alloc::string::String"

HostTypeOf(v) == v.ty

\* ToPyObject: an i32 becomes a Python int, a String a Python str.
ToPyObject(v) == IF v.ty = "i32" THEN PyInt(v.n) ELSE PyStr(v.s)

\* FromPyObject::extract: Ok(host value) or Err(PyErr).
Extract(pv, T) ==
  IF T = "i32"
    THEN IF pv.t = "int" /\ pv.n \in (-2147483647 - 1)..2147483647
           THEN [ok |-> TRUE, val |-> I32(pv.n), err |-> ""]
           ELSE [ok |-> FALSE, val |-> NoVal,
                 err |-> IF pv.t = "int" THEN "OverflowError" ELSE "TypeError"]
    ELSE IF pv.t = "str"
           THEN [ok |-> TRUE, val |-> RString(pv.s), err |-> ""]
           ELSE [ok |-> FALSE, val |-> NoVal, err |-> "TypeError"]

\* ------------------------------------------------------------- dictionaries

\* A dictionary is a function from Names to a value or Absent.
EmptyDict == [n \in Names |-> Absent]

\* The dictionary of the __main__ module.
MainDict == [EmptyDict EXCEPT !["__name__"] = PyStr("__main__")]

\* Dictionary objects of the interpreter heap: __main__'s and one per Context.
MainId == "main"
NullId == "null"
DictIds == {MainId} \cup Contexts

get_item(d, name) == d[name]
set_item(d, name, pv) == [d EXCEPT ![name] = pv]

\* PyDict_Merge(a, b, override): copy b's entries into a; with override = 0 a
\* key a already has keeps a's value.
PyDict_Merge(a, b, override) ==
  [n \in Names |->
     IF b[n] # Absent /\ (override \/ a[n] = Absent) THEN b[n] ELSE a[n]]

\* ------------------------------------------------------------------ results

\* What a call hands to its caller: nothing yet, (), a value, a Context, an
\* Err(PyErr), or a panic unwinding through the caller with its message.
None == [kind |-> "none", val |-> NoVal, msg |-> <<>>]
Unit == [kind |-> "unit", val |-> NoVal, msg |-> <<>>]
Value(v) == [kind |-> "value", val |-> v, msg |-> <<>>]
OkContext == [kind |-> "context", val |-> NoVal, msg |-> <<>>]
ErrResult(e) == [kind |-> "err", val |-> NoVal, msg |-> <<e>>]
Panic(m) == [kind |-> "panic", val |-> NoVal, msg |-> m]

\* ------------------------------------------------------------- Python blocks

\* Statements of the scripted code: tgt = c, tgt = src + c, assert src == c.
SetConst(tgt, c) == [k |-> "set_const", tgt |-> tgt, src |-> "", c |-> c]
SetAdd(tgt, src, c) == [k |-> "set_add", tgt |-> tgt, src |-> src, c |-> c]
AssertEq(src, c) == [k |-> "assert_eq", tgt |-> "", src |-> src, c |-> c]

Capture(name, v) == [name |-> name, val |-> v]

\* The blocks the host runs: the two of the documentation of Context, and
\* blocks that capture the host variable x = 13.
BlockNames == {"foo=5", "assert foo==5", "foo=x+2", "'x: foo=x+2",
               "'x: assert foo==5", "'x: x=x+2; assert foo==5"}

PythonBlock(b) ==
  CASE b = "foo=5" ->
         [captures |-> {}, bytecode |-> <<SetConst("foo", 5)>>]
    [] b = "assert foo==5" ->
         [captures |-> {}, bytecode |-> <<AssertEq("foo", 5)>>]
    [] b = "foo=x+2" ->
         [captures |-> {}, bytecode |-> <<SetAdd("foo", "x", 2)>>]
    [] b = "'x: foo=x+2" ->
         [captures |-> {Capture("x", I32(13))},
          bytecode |-> <<SetAdd("foo", "x", 2)>>]
    [] b = "'x: assert foo==5" ->
         [captures |-> {Capture("x", I32(13))},
          bytecode |-> <<AssertEq("foo", 5)>>]
    [] OTHER ->
         [captures |-> {Capture("x", I32(13))},
          bytecode |-> <<SetAdd("x", "x", 2), AssertEq("foo", 5)>>]

CapturedNames(caps) == {cap.name : cap \in caps}
CapturedValue(caps, n) == (CHOOSE cap \in caps : cap.name = n).val

\* code.set_variables: write every captured host variable into the dictionary.
set_variables(d, caps) ==
  [n \in Names |->
     IF n \in CapturedNames(caps) THEN ToPyObject(CapturedValue(caps, n)) ELSE d[n]]

\* One statement of the code, executed with d as globals: the dictionary it
\* leaves and the exception it raised ("" when none).
ExecStmt(d, st) ==
  CASE st.k = "set_const" -> [d |-> set_item(d, st.tgt, PyInt(st.c)), err |-> ""]
    [] st.k = "set_add" ->
         IF get_item(d, st.src) = Absent THEN [d |-> d, err |-> "NameError"]
         ELSE IF get_item(d, st.src).t # "int" THEN [d |-> d, err |-> "TypeError"]
         ELSE [d |-> set_item(d, st.tgt, PyInt(get_item(d, st.src).n + st.c)),
               err |-> ""]
    [] OTHER ->
         IF get_item(d, st.src) = Absent THEN [d |-> d, err |-> "NameError"]
         ELSE IF get_item(d, st.src) # PyInt(st.c)
           THEN [d |-> d, err |-> "AssertionError"]
         ELSE [d |-> d, err |-> ""]

\* run_python_code: the statements from position i on, in order, stopping at
\* the first exception.
RECURSIVE run_python_code(_, _, _)
run_python_code(d, code, i) ==
  IF i > Len(code) THEN [d |-> d, err |-> ""]
  ELSE LET r == ExecStmt(d, code[i])
       IN IF r.err # "" THEN r ELSE run_python_code(r.d, code, i + 1)

\* ------------------------------------------------- the *_with_gil functions

\* Mutant of new_with_gil: the arguments of the merge are swapped, so the new
\* dictionary stays empty.
new_with_gil_swapped(main, env) ==
  IF env = "no_main" THEN [ok |-> FALSE, d |-> EmptyDict, err |-> "ImportError"]
  ELSE IF env = "merge_fail"
    THEN [ok |-> FALSE, d |-> EmptyDict, err |-> "MemoryError"]
  ELSE [ok |-> TRUE, d |-> EmptyDict, err |-> ""]

\* Context::new_with_gil: Err when __main__ cannot be added or the merge
\* fails, otherwise a new dictionary holding a copy of __main__'s entries.
new_with_gil(main, env) ==
  IF env = "no_main" THEN [ok |-> FALSE, d |-> EmptyDict, err |-> "ImportError"]
  ELSE IF env = "merge_fail"
    THEN [ok |-> FALSE, d |-> EmptyDict, err |-> "MemoryError"]
  ELSE [ok |-> TRUE, d |-> PyDict_Merge(EmptyDict, main, FALSE), err |-> ""]

\* Mutant of NewResult: new_checked and new_with_gil panic as new does.
NewResultPanic(f, r) ==
  IF r.ok THEN OkContext ELSE Panic(<<"failed to create python context">>)

\* Context::new and Context::new_checked, after new_with_gil returned r.
NewResult(f, r) ==
  IF r.ok THEN OkContext
  ELSE IF f = "new" THEN Panic(<<"failed to create python context">>)
  ELSE ErrResult(r.err)

\* Mutant of get_with_gil: a missing name yields the default value of T.
get_with_gil_default(d, name, T) ==
  IF get_item(d, name) = Absent
    THEN Value(IF T = "i32" THEN I32(0) ELSE RString(""))
    ELSE LET r == Extract(get_item(d, name), T)
         IN IF r.ok THEN Value(r.val)
            ELSE Panic(<<"Unable to convert '", name, "' to '", type_name(T), "'">>)

\* Mutant of get_with_gil: a failed conversion is reported without the type.
get_with_gil_notype(d, name, T) ==
  IF get_item(d, name) = Absent
    THEN Panic(<<"Python context does not contain a variable named '", name, "'">>)
    ELSE LET r == Extract(get_item(d, name), T)
         IN IF r.ok THEN Value(r.val)
            ELSE Panic(<<"Unable to convert '", name, "'">>)

\* Context::get_with_gil (a panic message is the sequence of its pieces, with
\* the backquotes around the name and the type written as apostrophes).
get_with_gil(d, name, T) ==
  IF get_item(d, name) = Absent
    THEN Panic(<<"Python context does not contain a variable named '", name, "'">>)
    ELSE LET r == Extract(get_item(d, name), T)
         IN IF r.ok THEN Value(r.val)
            ELSE Panic(<<"Unable to convert '", name, "' to '", type_name(T), "'">>)

\* Mutant of set_with_gil: a name already bound keeps its value (setdefault).
set_with_gil_keep(d, name, v, env) ==
  IF env = "fail"
    THEN [d |-> d,
          res |-> Panic(<<"Unable to set '", name, "' from a '",
                          type_name(HostTypeOf(v)), "'">>)]
    ELSE [d |-> IF get_item(d, name) = Absent
                  THEN set_item(d, name, ToPyObject(v)) ELSE d,
          res |-> Unit]

\* Mutant of set_with_gil: the binding is stored in a dictionary emptied first.
set_with_gil_clear(d, name, v, env) ==
  IF env = "fail"
    THEN [d |-> d,
          res |-> Panic(<<"Unable to set '", name, "' from a '",
                          type_name(HostTypeOf(v)), "'">>)]
    ELSE [d |-> set_item(EmptyDict, name, ToPyObject(v)), res |-> Unit]

\* Context::set_with_gil: the dictionary after the call and what the call
\* returns; env = "fail" is set_item returning Err.
set_with_gil(d, name, v, env) ==
  IF env = "fail"
    THEN [d |-> d,
          res |-> Panic(<<"Unable to set '", name, "' from a '",
                          type_name(HostTypeOf(v)), "'">>)]
    ELSE [d |-> set_item(d, name, ToPyObject(v)), res |-> Unit]

\* Mutant of RunResult: the exception is printed and run returns.
RunResultSwallow(err) == Unit

\* The match in Context::run_with_gil on what run_python_code returned.
RunResult(err) ==
  IF err = "" THEN Unit ELSE Panic(<<"python!{...} failed to execute">>)

\* -------------------------------------------------------------------- state

VARIABLES
  heap,      \* the dictionary objects of the interpreter: id -> dictionary
  globals,   \* Context.globals of each host variable: a dictionary id, or NullId
  depth,     \* the number of GILGuards each thread holds (> 0: it holds the GIL)
  pc,        \* where each thread is: "idle", "exec" (run, after the injection),
             \* "ret" (the body has ended, the call has not yet returned)
  op,        \* the call each thread is in, with its arguments
  ip,        \* run: the position in the block's code of the next statement
  pyerr,     \* run: the exception run_python_code returned ("" when none)
  result,    \* what the call is about to hand to its caller
  entry,     \* history: the guards the thread held when it made the call
  assigned,  \* history: what the scripted code of this run assigned so far
  serial,    \* history: each Context's dictionary had the calls run one at a
             \* time, each as a whole, in the order they took the GIL
  expect,    \* history: what the call returns in that one-at-a-time execution
  last,      \* history: the last write to each Context, when it was a set
  injected   \* history: the dictionaries the block's set_variables was called
             \* with during this call, in order

vars == <<heap, globals, depth, pc, op, ip, pyerr, result,
          entry, assigned, serial, expect, last, injected>>

NoOp == [f |-> "none", acq |-> FALSE, ctx |-> "", name |-> "", ty |-> "",
         val |-> NoVal, blk |-> "", env |-> ""]
NoSet == [name |-> "", val |-> NoVal]

NewForms == {"new", "new_checked", "new_with_gil"}
GetForms == {"get", "get_with_gil"}
SetForms == {"set", "set_with_gil"}
RunForms == {"run", "run_with_gil"}
\* The forms that take the GIL themselves (Python::acquire_gil()).
SelfAcquiring == {"new", "new_checked", "get", "set", "run"}

NewOp(f, c, env) == [NoOp EXCEPT !.f = f, !.acq = f \in SelfAcquiring, !.ctx = c,
                                 !.env = env]
GetOp(f, c, name, T) == [NoOp EXCEPT !.f = f, !.acq = f \in SelfAcquiring,
                                     !.ctx = c, !.name = name, !.ty = T]
SetOp(f, c, name, v, env) == [NoOp EXCEPT !.f = f, !.acq = f \in SelfAcquiring,
                                          !.ctx = c, !.name = name, !.val = v,
                                          !.env = env]
RunOp(f, c, b) == [NoOp EXCEPT !.f = f, !.acq = f \in SelfAcquiring, !.ctx = c,
                               !.blk = b]

\* Context::globals: the dictionary self.globals points to.
Globals(c) == heap[globals[c]]

\* Mutant of NewDict: the Context keeps __main__'s own dictionary.
NewDictShared(c) == MainId

\* PyDict::new in new_with_gil: a dictionary object of its own for the Context
\* held by host variable c.
NewDict(c) == c

Init ==
  /\ heap = [i \in DictIds |-> IF i = MainId THEN MainDict ELSE EmptyDict]
  /\ globals = [c \in Contexts |-> NullId]
  /\ depth = [t \in Threads |-> 0]
  /\ pc = [t \in Threads |-> "idle"]
  /\ op = [t \in Threads |-> NoOp]
  /\ ip = [t \in Threads |-> 0]
  /\ pyerr = [t \in Threads |-> ""]
  /\ result = [t \in Threads |-> None]
  /\ entry = [t \in Threads |-> 0]
  /\ assigned = [t \in Threads |-> EmptyDict]
  /\ serial = [c \in Contexts |-> EmptyDict]
  /\ expect = [t \in Threads |-> None]
  /\ last = [c \in Contexts |-> NoSet]
  /\ injected = [t \in Threads |-> <<>>]

\* ---------------------------------------------------------------------- GIL

\* Mutant of GilAvailable: acquire_gil never waits.
GilAlways(t) == TRUE

\* Python::acquire_gil() returns once no other thread holds the GIL; a thread
\* that holds it already takes it again at once.
GilAvailable(t) == \A u \in Threads \ {t} : depth[u] = 0

\* Mutant of GuardsAfter: a panic leaves the guard of the call behind.
GuardsAfterLeak(t) ==
  IF op[t].acq /\ result[t].kind # "panic" THEN depth[t] - 1 ELSE depth[t]

\* Mutant of GuardsAfter: a *_with_gil form releases a guard as well.
GuardsAfterAlways(t) == depth[t] - 1

\* The guards thread t holds once the call it is in has ended: the temporary
\* GILGuard of a self-acquiring form is dropped on return and on unwinding.
GuardsAfter(t) == IF op[t].acq THEN depth[t] - 1 ELSE depth[t]

\* The host takes the GIL for a locked section of its own.
AcquireGil(t) ==
  /\ pc[t] = "idle"
  /\ GilAvailable(t)
  /\ depth[t] < MaxDepth
  /\ depth' = [depth EXCEPT ![t] = @ + 1]
  /\ UNCHANGED <<heap, globals, pc, op, ip, pyerr, result,
                 entry, assigned, serial, expect, last, injected>>

\* The host's GILGuard goes out of scope.
DropGil(t) ==
  /\ pc[t] = "idle"
  /\ depth[t] > 0
  /\ depth' = [depth EXCEPT ![t] = @ - 1]
  /\ UNCHANGED <<heap, globals, pc, op, ip, pyerr, result,
                 entry, assigned, serial, expect, last, injected>>

\* -------------------------------------------------------------------- calls

\* The calls run one at a time: call o as a whole on dictionary d.
SerialApply(d, o) ==
  IF o.f \in GetForms THEN [d |-> d, res |-> get_with_gil(d, o.name, o.ty)]
  ELSE IF o.f \in SetForms THEN set_with_gil(d, o.name, o.val, o.env)
  ELSE LET r == run_python_code(set_variables(d, PythonBlock(o.blk).captures),
                                PythonBlock(o.blk).bytecode, 1)
       IN [d |-> r.d, res |-> RunResult(r.err)]

\* Mutant of Enter: a self-acquiring form assumes the GIL instead of taking it.
EnterNoAcquire(t, o) ==
  /\ pc[t] = "idle"
  /\ ~ o.acq => depth[t] > 0
  /\ UNCHANGED depth
  /\ op' = [op EXCEPT ![t] = o]
  /\ entry' = [entry EXCEPT ![t] = depth[t]]
  /\ expect' = [expect EXCEPT ![t] =
                  IF o.f \in NewForms THEN None
                  ELSE SerialApply(serial[o.ctx], o).res]

\* Thread t enters call o: a self-acquiring form first takes the GIL
\* (Python::acquire_gil()), a *_with_gil form is handed the Python token of a
\* guard t already holds.
Enter(t, o) ==
  /\ pc[t] = "idle"
  /\ IF o.acq
       THEN /\ GilAvailable(t)
            /\ depth[t] < MaxDepth
            /\ depth' = [depth EXCEPT ![t] = @ + 1]
       ELSE /\ depth[t] > 0
            /\ UNCHANGED depth
  /\ op' = [op EXCEPT ![t] = o]
  /\ entry' = [entry EXCEPT ![t] = depth[t]]
  /\ expect' = [expect EXCEPT ![t] =
                  IF o.f \in NewForms THEN None
                  ELSE SerialApply(serial[o.ctx], o).res]

\* Context::new, Context::new_checked, Context::new_with_gil: the body of
\* new_with_gil and the match of new / new_checked on its result.
New(t, f, c, env) ==
  /\ globals[c] = NullId
  /\ Enter(t, NewOp(f, c, env))
  /\ LET r == new_with_gil(heap[MainId], env)
     IN /\ result' = [result EXCEPT ![t] = NewResult(f, r)]
        /\ IF r.ok
             THEN /\ globals' = [globals EXCEPT ![c] = NewDict(c)]
                  /\ heap' = [heap EXCEPT ![NewDict(c)] = r.d]
                  /\ serial' = [serial EXCEPT ![c] = r.d]
             ELSE UNCHANGED <<globals, heap, serial>>
  /\ pc' = [pc EXCEPT ![t] = "ret"]
  /\ UNCHANGED <<ip, pyerr, assigned, last, injected>>

\* Mutant of Get: a get of a missing name binds the name to None first.
GetDefaulting(t, f, c, name, T) ==
  /\ globals[c] # NullId
  /\ Enter(t, GetOp(f, c, name, T))
  /\ result' = [result EXCEPT ![t] = get_with_gil(Globals(c), name, T)]
  /\ heap' = [heap EXCEPT ![globals[c]] =
                IF get_item(@, name) = Absent
                  THEN set_item(@, name, PyStr("None")) ELSE @]
  /\ pc' = [pc EXCEPT ![t] = "ret"]
  /\ UNCHANGED <<globals, ip, pyerr, assigned, serial, last, injected>>

\* Context::get, Context::get_with_gil
Get(t, f, c, name, T) ==
  /\ globals[c] # NullId
  /\ Enter(t, GetOp(f, c, name, T))
  /\ result' = [result EXCEPT ![t] = get_with_gil(Globals(c), name, T)]
  /\ pc' = [pc EXCEPT ![t] = "ret"]
  /\ UNCHANGED <<heap, globals, ip, pyerr, assigned, serial, last, injected>>

\* Context::set, Context::set_with_gil
Set(t, f, c, name, v, env) ==
  /\ globals[c] # NullId
  /\ Enter(t, SetOp(f, c, name, v, env))
  /\ LET r == set_with_gil(Globals(c), name, v, env)
     IN /\ heap' = [heap EXCEPT ![globals[c]] = r.d]
        /\ result' = [result EXCEPT ![t] = r.res]
        /\ last' = [last EXCEPT ![c] =
                      IF r.res = Unit THEN [name |-> name, val |-> v] ELSE NoSet]
  /\ serial' = [serial EXCEPT ![c] = SerialApply(@, SetOp(f, c, name, v, env)).d]
  /\ pc' = [pc EXCEPT ![t] = "ret"]
  /\ UNCHANGED <<globals, ip, pyerr, assigned, injected>>

\* Mutant of Run: the captures are merged in without overriding, so a name
\* the dictionary already binds keeps its value.
RunNoOverride(t, f, c, b) ==
  /\ globals[c] # NullId
  /\ Enter(t, RunOp(f, c, b))
  /\ heap' = [heap EXCEPT ![globals[c]] =
                PyDict_Merge(@, set_variables(EmptyDict, PythonBlock(b).captures),
                             FALSE)]
  /\ last' = [last EXCEPT ![c] = NoSet]
  /\ serial' = [serial EXCEPT ![c] = SerialApply(@, RunOp(f, c, b)).d]
  /\ pc' = [pc EXCEPT ![t] = "exec"]
  /\ ip' = [ip EXCEPT ![t] = 1]
  /\ injected' = [injected EXCEPT ![t] = Append(@, globals[c])]
  /\ UNCHANGED <<globals, pyerr, result, assigned>>

\* Mutant of Run: every run starts from a new copy of __main__'s dictionary.
RunFresh(t, f, c, b) ==
  /\ globals[c] # NullId
  /\ Enter(t, RunOp(f, c, b))
  /\ heap' = [heap EXCEPT ![globals[c]] =
                set_variables(PyDict_Merge(EmptyDict, heap[MainId], FALSE),
                              PythonBlock(b).captures)]
  /\ last' = [last EXCEPT ![c] = NoSet]
  /\ serial' = [serial EXCEPT ![c] = SerialApply(@, RunOp(f, c, b)).d]
  /\ pc' = [pc EXCEPT ![t] = "exec"]
  /\ ip' = [ip EXCEPT ![t] = 1]
  /\ injected' = [injected EXCEPT ![t] = Append(@, globals[c])]
  /\ UNCHANGED <<globals, pyerr, result, assigned>>

\* Mutant of Run: the code is run without set_variables being called.
RunNoInject(t, f, c, b) ==
  /\ globals[c] # NullId
  /\ Enter(t, RunOp(f, c, b))
  /\ last' = [last EXCEPT ![c] = NoSet]
  /\ serial' = [serial EXCEPT ![c] = SerialApply(@, RunOp(f, c, b)).d]
  /\ pc' = [pc EXCEPT ![t] = "exec"]
  /\ ip' = [ip EXCEPT ![t] = 1]
  /\ UNCHANGED <<heap, globals, pyerr, result, assigned, injected>>

\* Context::run, Context::run_with_gil, up to the first statement of
\* run_with_gil: (code.set_variables)(self.globals(py)).
Run(t, f, c, b) ==
  /\ globals[c] # NullId
  /\ Enter(t, RunOp(f, c, b))
  /\ heap' = [heap EXCEPT ![globals[c]] =
                set_variables(@, PythonBlock(b).captures)]
  /\ last' = [last EXCEPT ![c] = NoSet]
  /\ serial' = [serial EXCEPT ![c] = SerialApply(@, RunOp(f, c, b)).d]
  /\ pc' = [pc EXCEPT ![t] = "exec"]
  /\ ip' = [ip EXCEPT ![t] = 1]
  /\ injected' = [injected EXCEPT ![t] = Append(@, globals[c])]
  /\ UNCHANGED <<globals, pyerr, result, assigned>>

\* Mutant of Exec: when the code raises, the captured variables are removed
\* from the dictionary again.
ExecRollback(t) ==
  /\ pc[t] = "exec"
  /\ LET c == op[t].ctx
         code == PythonBlock(op[t].blk).bytecode
         st == code[ip[t]]
         r == ExecStmt(Globals(c), st)
         done == r.err # "" \/ ip[t] = Len(code)
     IN /\ heap' = [heap EXCEPT ![globals[c]] =
                      IF r.err = "" THEN r.d
                      ELSE [n \in Names |->
                              IF n \in CapturedNames(PythonBlock(op[t].blk).captures)
                                THEN Absent ELSE r.d[n]]]
        /\ assigned' = [assigned EXCEPT ![t] =
                          IF r.err = "" /\ st.tgt # ""
                            THEN [@ EXCEPT ![st.tgt] = r.d[st.tgt]]
                            ELSE @]
        /\ pyerr' = [pyerr EXCEPT ![t] = r.err]
        /\ IF done
             THEN /\ pc' = [pc EXCEPT ![t] = "ret"]
                  /\ result' = [result EXCEPT ![t] = RunResult(r.err)]
                  /\ UNCHANGED ip
             ELSE /\ ip' = [ip EXCEPT ![t] = @ + 1]
                  /\ UNCHANGED <<pc, result>>
  /\ UNCHANGED <<globals, depth, op, entry, serial, expect, last, injected>>

\* run_with_gil, run_python_code(py, self, code.bytecode): the next statement
\* of the code runs with the Context's dictionary as its globals; after the
\* last statement, or at an exception, the match decides what run returns.
Exec(t) ==
  /\ pc[t] = "exec"
  /\ LET c == op[t].ctx
         code == PythonBlock(op[t].blk).bytecode
         st == code[ip[t]]
         r == ExecStmt(Globals(c), st)
         done == r.err # "" \/ ip[t] = Len(code)
     IN /\ heap' = [heap EXCEPT ![globals[c]] = r.d]
        /\ assigned' = [assigned EXCEPT ![t] =
                          IF r.err = "" /\ st.tgt # ""
                            THEN [@ EXCEPT ![st.tgt] = r.d[st.tgt]]
                            ELSE @]
        /\ pyerr' = [pyerr EXCEPT ![t] = r.err]
        /\ IF done
             THEN /\ pc' = [pc EXCEPT ![t] = "ret"]
                  /\ result' = [result EXCEPT ![t] = RunResult(r.err)]
                  /\ UNCHANGED ip
             ELSE /\ ip' = [ip EXCEPT ![t] = @ + 1]
                  /\ UNCHANGED <<pc, result>>
  /\ UNCHANGED <<globals, depth, op, entry, serial, expect, last, injected>>

\* Mutant of Return: a call that panicked leaves the Context without its
\* dictionary.
ReturnDropOnPanic(t) ==
  /\ pc[t] = "ret"
  /\ depth' = [depth EXCEPT ![t] = GuardsAfter(t)]
  /\ pc' = [pc EXCEPT ![t] = "idle"]
  /\ op' = [op EXCEPT ![t] = NoOp]
  /\ ip' = [ip EXCEPT ![t] = 0]
  /\ pyerr' = [pyerr EXCEPT ![t] = ""]
  /\ result' = [result EXCEPT ![t] = None]
  /\ entry' = [entry EXCEPT ![t] = 0]
  /\ assigned' = [assigned EXCEPT ![t] = EmptyDict]
  /\ expect' = [expect EXCEPT ![t] = None]
  /\ injected' = [injected EXCEPT ![t] = <<>>]
  /\ globals' = IF result[t].kind = "panic" /\ op[t].f \notin NewForms
                  THEN [globals EXCEPT ![op[t].ctx] = NullId] ELSE globals
  /\ UNCHANGED <<heap, serial, last>>

\* The call ends: it returns, or its panic unwinds; either way the
\* temporaries of the call are dropped.
Return(t) ==
  /\ pc[t] = "ret"
  /\ depth' = [depth EXCEPT ![t] = GuardsAfter(t)]
  /\ pc' = [pc EXCEPT ![t] = "idle"]
  /\ op' = [op EXCEPT ![t] = NoOp]
  /\ ip' = [ip EXCEPT ![t] = 0]
  /\ pyerr' = [pyerr EXCEPT ![t] = ""]
  /\ result' = [result EXCEPT ![t] = None]
  /\ entry' = [entry EXCEPT ![t] = 0]
  /\ assigned' = [assigned EXCEPT ![t] = EmptyDict]
  /\ expect' = [expect EXCEPT ![t] = None]
  /\ injected' = [injected EXCEPT ![t] = <<>>]
  /\ UNCHANGED <<heap, globals, serial, last>>

Next ==
  \E t \in Threads :
    \/ AcquireGil(t)
    \/ DropGil(t)
    \/ \E f \in NewForms, c \in Contexts, env \in {"ok", "no_main", "merge_fail"} :
         New(t, f, c, env)
    \/ \E f \in GetForms, c \in Contexts, name \in Names, T \in HostTypes :
         Get(t, f, c, name, T)
    \/ \E f \in SetForms, c \in Contexts, name \in SetNames, v \in HostValues,
          env \in {"ok", "fail"} :
         Set(t, f, c, name, v, env)
    \/ \E f \in RunForms, c \in Contexts, b \in BlockNames :
         Run(t, f, c, b)
    \/ Exec(t)
    \/ Return(t)

Spec == Init /\ [][Next]_vars

\* ------------------------------------------------------------------- claims

Created(c) == globals[c] # NullId
Ended(t, forms) == pc[t] = "ret" /\ op[t].f \in forms
Captures(t) == PythonBlock(op[t].blk).captures

\* In this step thread t makes a call on Context c, or runs a statement of a
\* block on it.
ActsOn(t, c) ==
  \/ pc[t] = "idle" /\ pc'[t] # "idle" /\ op'[t].ctx = c
  \/ pc[t] = "exec" /\ op[t].ctx = c /\ <<pc[t], ip[t]>> # <<pc'[t], ip'[t]>>

\* In this step thread t binds name n of Context c: a set of n, the injection
\* of a block that captures n, or a statement that assigns n.
Writes(t, c, n) ==
  /\ ActsOn(t, c)
  /\ \/ pc[t] = "idle" /\ op'[t].f \in SetForms /\ op'[t].name = n
     \/ pc[t] = "idle" /\ op'[t].f \in RunForms
                       /\ n \in CapturedNames(PythonBlock(op'[t].blk).captures)
     \/ pc[t] = "exec" /\ PythonBlock(op[t].blk).bytecode[ip[t]].tgt = n

\* C1 - namespace persistence: a name bound in a Context's namespace stays
\* bound, to the same value, across every step (of any call, by any thread,
\* and across the return of calls) that does not itself write that name in
\* that Context; so a later get or run finds the value last bound to it.
NamespacePersistence ==
  [][\A c \in Contexts, n \in Names :
       (Created(c) /\ Globals(c)[n] # Absent /\ ~ \E t \in Threads : Writes(t, c, n))
         => (globals'[c] # NullId /\ heap'[globals'[c]][n] = Globals(c)[n])]_vars

\* A run asserting foo == 5 succeeds: an earlier run bound foo to 5.
PersistenceWitness ==
  \E t \in Threads :
    Ended(t, RunForms) /\ op[t].blk = "assert foo==5" /\ result[t] = Unit

\* C2 - set/get round trip: a get::<T>(x) that follows a successful set(x, v)
\* on the same Context with no write to that Context in between, T being the
\* type of v, returns v.
SetGetRoundTrip ==
  \A t \in Threads :
    (/\ Ended(t, GetForms)
     /\ last[op[t].ctx].name = op[t].name
     /\ HostTypeOf(last[op[t].ctx].val) = op[t].ty)
      => result[t] = Value(last[op[t].ctx].val)

RoundTripWitness ==
  \E t \in Threads :
    /\ Ended(t, GetForms)
    /\ last[op[t].ctx] = [name |-> "x", val |-> RString("a")]
    /\ op[t].name = "x" /\ op[t].ty = "String"
    /\ result[t] = Value(RString("a"))

\* C3 - isolation across contexts: no step changes __main__'s dictionary; a
\* step changes the namespace of a Context only when it is a step of a call
\* on that Context; and a Context constructed in a step gets a dictionary no
\* other Context has, holding only bindings of __main__, whatever was bound
\* through the other Contexts before.
IsolationAcrossContexts ==
  [][/\ heap'[MainId] = heap[MainId]
     /\ \A c \in Contexts :
          /\ (Created(c) /\ ~ \E t \in Threads : ActsOn(t, c))
               => (globals'[c] = globals[c] /\ heap'[globals'[c]] = Globals(c))
          /\ (~ Created(c) /\ globals'[c] # NullId)
               => /\ globals'[c] # MainId
                  /\ \A d \in Contexts \ {c} : globals'[d] # globals'[c]
                  /\ \A n \in Names :
                       heap'[globals'[c]][n] \in {Absent, heap[MainId][n]}]_vars

\* B has just been constructed although x was bound through A before: B does
\* not bind x.
IsolationWitness ==
  /\ Created("A") /\ Created("B")
  /\ Globals("A")["x"] # Absent /\ Globals("B")["x"] = Absent
  /\ \E t \in Threads : Ended(t, NewForms) /\ op[t].ctx = "B"

\* C4 - capture injection: when the first statement of a block is about to
\* run, every captured variable is bound to its captured value; and when the
\* run has ended, a get of a captured variable yields what the scripted code
\* assigned to it, or the captured value if the code did not assign it.
CaptureInjection ==
  \A t \in Threads :
    \A cap \in Captures(t) :
      /\ (pc[t] = "exec" /\ ip[t] = 1)
           => Globals(op[t].ctx)[cap.name] = ToPyObject(cap.val)
      /\ Ended(t, RunForms)
           => /\ Globals(op[t].ctx)[cap.name] =
                   IF assigned[t][cap.name] # Absent
                     THEN assigned[t][cap.name] ELSE ToPyObject(cap.val)
              /\ get_with_gil(Globals(op[t].ctx), cap.name, HostTypeOf(cap.val)) =
                   Value(IF assigned[t][cap.name] # Absent
                           THEN Extract(assigned[t][cap.name],
                                        HostTypeOf(cap.val)).val
                           ELSE cap.val)

\* A block that captures x = 13 and reassigns it has run to its end, and x is
\* bound to the value the code assigned, 15.
CaptureWitness ==
  \E t \in Threads :
    /\ Ended(t, RunForms) /\ op[t].blk = "'x: x=x+2; assert foo==5"
    /\ result[t] = Unit
    /\ Globals(op[t].ctx)["x"] = PyInt(15)

\* C5 - run failure: a run whose code raised ends in a panic, never in a
\* return, and every assignment the code made before it raised is still in
\* the namespace.
RunFailure ==
  \A t \in Threads :
    (Ended(t, RunForms) /\ pyerr[t] # "")
      => /\ result[t].kind = "panic"
         /\ \A n \in Names :
              assigned[t][n] # Absent => Globals(op[t].ctx)[n] = assigned[t][n]

RunFailureWitness ==
  \E t \in Threads :
    /\ Ended(t, RunForms) /\ pyerr[t] = "AssertionError"
    /\ assigned[t]["x"] = PyInt(15)
    /\ result[t].kind = "panic"

\* The pieces of a panic message.
Mentions(r, piece) == \E i \in DOMAIN r.msg : r.msg[i] = piece

\* C6 - missing-name fatality: a get of a name the namespace does not bind
\* panics, and the message names the variable.
MissingNameFatal ==
  \A t \in Threads :
    (Ended(t, GetForms) /\ Globals(op[t].ctx)[op[t].name] = Absent)
      => /\ result[t].kind = "panic"
         /\ Mentions(result[t], op[t].name)
         /\ Mentions(result[t], "Python context does not contain a variable named '")

MissingNameWitness ==
  \E t \in Threads :
    /\ Ended(t, GetForms) /\ op[t].name = "foo"
    /\ Globals(op[t].ctx) = MainDict
    /\ result[t].kind = "panic"

\* C7 - type-mismatch fatality: a get::<T> of a name bound to a value that
\* does not convert to T panics, and the message names the variable and T.
TypeMismatchFatal ==
  \A t \in Threads :
    (/\ Ended(t, GetForms)
     /\ Globals(op[t].ctx)[op[t].name] # Absent
     /\ ~ Extract(Globals(op[t].ctx)[op[t].name], op[t].ty).ok)
      => /\ result[t].kind = "panic"
         /\ Mentions(result[t], op[t].name)
         /\ Mentions(result[t], type_name(op[t].ty))

\* x was set to the integer 13 and is requested as a String.
TypeMismatchWitness ==
  \E t \in Threads :
    /\ Ended(t, GetForms) /\ op[t].name = "x" /\ op[t].ty = "String"
    /\ last[op[t].ctx] = [name |-> "x", val |-> I32(13)]
    /\ result[t].kind = "panic"

\* C8 - bootstrap failure: when __main__ cannot be added or the merge fails,
\* new panics, new_checked and new_with_gil return the error, and the host
\* variable holds no Context; otherwise all three forms produce a Context.
BootstrapFailure ==
  \A t \in Threads :
    Ended(t, NewForms)
      => IF op[t].env = "ok"
           THEN result[t] = OkContext /\ Created(op[t].ctx)
           ELSE /\ ~ Created(op[t].ctx)
                /\ op[t].f = "new" => result[t].kind = "panic"
                /\ op[t].f # "new" => result[t].kind = "err"

BootstrapWitness ==
  \E t \in Threads :
    /\ Ended(t, NewForms) /\ op[t].f = "new_checked" /\ op[t].env = "merge_fail"
    /\ result[t] = ErrResult("MemoryError")

\* C9 - lock release on every exit path: a self-acquiring call starts only
\* when no other thread holds the GIL and then holds one guard more; and when
\* a call ends, by return or by panic, the thread holds exactly the guards it
\* held before the call.
LockReleased ==
  [][\A t \in Threads :
       /\ (pc[t] = "idle" /\ pc'[t] # "idle" /\ op'[t].acq)
            => /\ \A u \in Threads \ {t} : depth[u] = 0
               /\ depth'[t] = depth[t] + 1
       /\ (pc[t] = "ret" /\ pc'[t] = "idle") => depth'[t] = entry[t]]_vars

\* A self-acquiring call that panicked is about to unwind, its guard held.
LockReleasedWitness ==
  \E t \in Threads :
    /\ pc[t] = "ret" /\ op[t].acq /\ result[t].kind = "panic"
    /\ depth[t] = entry[t] + 1

\* C10 - ordering guarantee: whenever no run is under way on a Context, its
\* namespace is the one the calls made so far produce when run one at a
\* time, each as a whole, in the order they took the GIL; every get, set and
\* run returns what it returns in that execution; and while a run is between
\* its injection and the end of its code, no other thread is inside a call.
OrderingGuarantee ==
  /\ \A c \in Contexts :
       (Created(c) /\ \A t \in Threads : ~ (pc[t] = "exec" /\ op[t].ctx = c))
         => Globals(c) = serial[c]
  /\ \A t \in Threads :
       (pc[t] = "ret" /\ op[t].f \notin NewForms) => result[t] = expect[t]
  /\ \A t \in Threads :
       pc[t] = "exec" => \A u \in Threads \ {t} : pc[u] = "idle"

\* Thread 2 ends a run that read x, bound by an earlier call, while thread 1
\* holds no guard.
OrderingWitness ==
  /\ NumThreads >= 2
  /\ Ended(2, {"run"}) /\ op[2].blk = "foo=x+2" /\ result[2] = Unit
  /\ depth[1] = 0
  /\ Globals(op[2].ctx)["foo"] = PyInt(15)

\* In this step thread t begins a call of one of the forms.
Begins(t, forms) == pc[t] = "idle" /\ pc'[t] # "idle" /\ op'[t].f \in forms

\* C11 - mutation ownership: never do two threads hold the GIL at once, and
\* every step of a call on a Context (its reads, its writes, the statements
\* of its code) is taken by a thread that holds the GIL after the step while
\* no other thread holds it before the step.
MutationOwnership ==
  [][/\ \A t \in Threads, u \in Threads :
          (depth'[t] > 0 /\ depth'[u] > 0) => t = u
     /\ \A t \in Threads, c \in Contexts :
          ActsOn(t, c)
            => /\ depth'[t] > 0
               /\ \A u \in Threads \ {t} : depth[u] = 0 /\ depth'[u] = 0
     /\ \A c \in Contexts :
          (Created(c) /\ heap'[globals[c]] # Globals(c))
            => \E t \in Threads : ActsOn(t, c) /\ depth'[t] > 0]_vars

\* A self-acquiring run is between two statements of its code, holding the
\* one guard it took.
OwnershipWitness ==
  \E t \in Threads :
    /\ pc[t] = "exec" /\ ip[t] = 2 /\ op[t].acq
    /\ depth[t] = 1
    /\ \A u \in Threads \ {t} : depth[u] = 0

\* C12 - already-locked forms: a *_with_gil call is made by a thread that
\* holds the GIL, and no step of it, its return or its panic included,
\* changes the guards the thread holds; and while a thread holds the GIL
\* across a step, no other thread begins a call or runs a statement, so the
\* calls of one locked section are not interleaved with another holder's.
AlreadyLockedForms ==
  [][\A t \in Threads :
       /\ (Begins(t, NewForms \cup GetForms \cup SetForms \cup RunForms)
             /\ ~ op'[t].acq)
            => depth[t] > 0 /\ depth'[t] = depth[t]
       /\ (pc[t] # "idle" /\ ~ op[t].acq) => (depth[t] > 0 /\ depth'[t] = depth[t])
       /\ (depth[t] > 0 /\ depth'[t] > 0)
            => \A u \in Threads \ {t} :
                 /\ pc'[u] = pc[u] /\ ip'[u] = ip[u] /\ op'[u] = op[u]
                 /\ depth'[u] = 0]_vars

\* A run_with_gil inside the caller's locked section has panicked, and the
\* caller holds the guard it held when it made the call.
AlreadyLockedWitness ==
  \E t \in Threads :
    /\ Ended(t, {"run_with_gil"}) /\ result[t].kind = "panic"
    /\ depth[t] = entry[t] /\ depth[t] > 0

\* C13 - inject before execute: whenever a statement of a block is about to
\* run, and when the run has ended, set_variables has been called exactly
\* once in this call, with the dictionary of this Context; and before the
\* first statement runs every captured variable is written.
InjectBeforeExecute ==
  \A t \in Threads :
    /\ (pc[t] = "exec" \/ Ended(t, RunForms))
         => injected[t] = <<globals[op[t].ctx]>>
    /\ (pc[t] = "exec" /\ ip[t] = 1)
         => \A n \in CapturedNames(Captures(t)) : Globals(op[t].ctx)[n] # Absent
    /\ (pc[t] = "idle" \/ op[t].f \notin RunForms) => injected[t] = << >>

\* The second statement of a capturing block is about to run, after one
\* injection.
InjectWitness ==
  \E t \in Threads :
    /\ pc[t] = "exec" /\ ip[t] = 2 /\ Captures(t) # {}
    /\ Len(injected[t]) = 1

\* C14 - effect of set: the step of a successful set(name, value) leaves name
\* bound to the converted value and changes no other binding of that
\* namespace, no other dictionary, and no Context's dictionary reference.
EffectOfSet ==
  [][\A t \in Threads :
       (Begins(t, SetForms) /\ result'[t] = Unit)
         => /\ heap'[globals[op'[t].ctx]][op'[t].name] = ToPyObject(op'[t].val)
            /\ \A n \in Names \ {op'[t].name} :
                 heap'[globals[op'[t].ctx]][n] = Globals(op'[t].ctx)[n]
            /\ \A i \in DictIds \ {globals[op'[t].ctx]} : heap'[i] = heap[i]
            /\ globals' = globals]_vars

\* A set of x to "a" has succeeded on a Context that binds foo, while the
\* other Context binds x to something else.
EffectOfSetWitness ==
  \E t \in Threads, d \in Contexts :
    /\ Ended(t, SetForms) /\ result[t] = Unit /\ op[t].val = RString("a")
    /\ Globals(op[t].ctx)["x"] = PyStr("a")
    /\ Globals(op[t].ctx)["foo"] # Absent
    /\ d # op[t].ctx /\ Created(d) /\ Globals(d)["x"] = PyInt(13)

\* C15 - namespace identity: once a Context is constructed, no step, of a
\* successful or a failed call, changes which dictionary it refers to, and
\* the dictionary a run injects into and executes on is that one.
NamespaceIdentity ==
  [][/\ \A c \in Contexts : Created(c) => globals'[c] = globals[c]
     /\ \A t \in Threads :
          (pc'[t] # "idle" /\ op'[t].f \in RunForms)
            => injected'[t] = <<globals[op'[t].ctx]>>]_vars

\* A get has panicked on a Context, which still refers to its dictionary.
IdentityWitness ==
  \E t \in Threads :
    /\ Ended(t, GetForms) /\ result[t].kind = "panic"
    /\ globals[op[t].ctx] = NewDict(op[t].ctx)

\* C16 - bootstrap content: when a construction has succeeded, the new
\* Context refers to a dictionary that is neither __main__'s nor another
\* Context's, and its bindings are exactly those of __main__'s dictionary.
BootstrapContent ==
  \A t \in Threads :
    (Ended(t, NewForms) /\ result[t] = OkContext)
      => /\ globals[op[t].ctx] \notin {NullId, MainId}
         /\ \A d \in Contexts \ {op[t].ctx} : globals[d] # globals[op[t].ctx]
         /\ \A n \in Names : Globals(op[t].ctx)[n] = heap[MainId][n]

\* B has been constructed, with __main__'s bindings, while A binds x and foo.
BootstrapContentWitness ==
  \E t \in Threads :
    /\ Ended(t, NewForms) /\ op[t].ctx = "B" /\ result[t] = OkContext
    /\ Globals("B")["__name__"] = PyStr("__main__")
    /\ Created("A") /\ Globals("A")["x"] # Absent /\ Globals("A")["foo"] # Absent

\* C17 - get is read-only: the step of a get or get_with_gil, whatever it
\* returns, changes no dictionary and no Context's dictionary reference.
GetReadOnly ==
  [][\A t \in Threads :
       Begins(t, GetForms) => (heap' = heap /\ globals' = globals)]_vars

\* A get of foo has panicked because foo is missing, and foo is still missing.
GetReadOnlyWitness ==
  \E t \in Threads :
    /\ Ended(t, GetForms) /\ op[t].name = "foo" /\ result[t].kind = "panic"
    /\ Globals(op[t].ctx)["foo"] = Absent
    /\ Globals(op[t].ctx)["x"] # Absent

\* C18 - captures survive a failed run: the step that begins a run binds
\* every captured variable to its captured value, whatever it was bound to;
\* and the step in which the code raises, and the return of the panicked
\* run, leave each captured variable bound to what the code assigned to it
\* before failing, or to the captured value.
CapturesSurviveFailure ==
  [][\A t \in Threads :
       /\ Begins(t, RunForms)
            => \A cap \in PythonBlock(op'[t].blk).captures :
                 heap'[globals[op'[t].ctx]][cap.name] = ToPyObject(cap.val)
       /\ (op[t].f \in RunForms /\ pc'[t] # "exec"
             /\ (result[t].kind = "panic" \/ result'[t].kind = "panic"))
            => \A cap \in Captures(t) :
                 heap'[globals'[op[t].ctx]][cap.name] =
                   IF assigned[t][cap.name] # Absent
                     THEN assigned[t][cap.name] ELSE ToPyObject(cap.val)]_vars

\* A block capturing x = 13 has failed without assigning x: x is bound to 13.
SurviveWitness ==
  \E t \in Threads :
    /\ Ended(t, RunForms) /\ op[t].blk = "'x: assert foo==5"
    /\ result[t].kind = "panic"
    /\ Globals(op[t].ctx)["x"] = PyInt(13)

====
